---------------------------- MODULE Spec2Model ----------------------------
(***************************************************************************)
(* Model of the Anganwadi malnutrition backend:                            *)
(*   src/train_model_final.py  MalnutritionModel.predict                   *)
(*   src/app.py                /signup, /login, /assess, /stats handlers   *)
(*                                                                         *)
(* z-scores are integers in thousandths (-3.004 is -3004).  A string that  *)
(* the code inspects character by character (sex) is a sequence of         *)
(* one-character strings.                                                  *)
(***************************************************************************)
EXTENDS Integers, Sequences, FiniteSets, TLC

VARIABLES
    calculator,   \* model.calculator: the WHO reference resolver, args -> outcome
    last,         \* the last call of model.predict: its arguments, calls of wfl, return value
    seen,         \* (status, color_code, action) triples returned by predict so far
    workers,      \* table "workers": sequence of HealthWorker rows
    children,     \* table "children": sequence of ChildRecord rows
    assessLog,    \* one entry per finished /assess request: request, diagnosis, response
    signup,       \* one entry per /signup request: where register_worker stands
    stats,        \* one entry per /stats request: where get_dashboard_stats stands
    loginLog      \* one entry per finished /login request: its response

vars == <<calculator, last, seen, workers, children, assessLog, signup, stats, loginLog>>

-----------------------------------------------------------------------------
(* Bounds *)

MaxRequests == 3    \* HTTP requests per behaviour, of all four kinds together
Window == 3         \* resolved z-scores lie within Window steps of 0.002 of a cutoff

-----------------------------------------------------------------------------
(* Values of the result dictionary, src/train_model_final.py *)

SAM == "Severe Acute Malnutrition (SAM)"
MAM == "Moderate Acute Malnutrition (MAM)"
NORMAL == "Normal"
OVERWEIGHT == "Possible Overweight"
ERROR == "Error"

EDEMA_ACTION == "Urgent Medical Attention Required (Edematous Malnutrition)"
ERROR_PREFIX == "Could not calculate score: "

\* -5.0, "z_score" of the edema short-circuit
EDEMA_Z == -5000
\* the cutoffs -3, -2, 2 of step 5
SAM_CUTOFF == -3000
MAM_CUTOFF == -2000
OVERWEIGHT_CUTOFF == 2000

NoCall == [none |-> TRUE]

-----------------------------------------------------------------------------
(* str.lower() and str.startswith() on a sequence of characters *)

Lower(c) ==
    CASE c = "M" -> "m"
      [] c = "F" -> "f"
      [] c = "X" -> "x"
      [] OTHER -> c

LowerStr(s) == [i \in 1..Len(s) |-> Lower(s[i])]

StartsWith(s, c) == Len(s) >= 1 /\ s[1] = c

\* Faulty variant of SexCode: the prefix test without lower()
SexCodeCaseSensitive(sex) == IF StartsWith(sex, "m") THEN "M" ELSE "F"

\* sex_code = 'M' if sex.lower().startswith('m') else 'F'
SexCode(sex) == IF StartsWith(LowerStr(sex), "m") THEN "M" ELSE "F"

-----------------------------------------------------------------------------
(* round(whz, 2): to the nearest hundredth, an exact tie to the even one.  *)
(* x is in thousandths; so is the result.                                  *)

Round2(x) ==
    LET q == x \div 10
        r == x % 10
    IN  IF r < 5 THEN 10 * q
        ELSE IF r > 5 THEN 10 * (q + 1)
        ELSE IF q % 2 = 0 THEN 10 * q ELSE 10 * (q + 1)

-----------------------------------------------------------------------------
(* The outcome of self.calculator.wfl(...): a z-score or a raised exception *)

Returned(z) == [ok |-> TRUE, whz |-> z]
Raised(e) == [ok |-> FALSE, err |-> e]

\* Faulty variant of EdemaRule: the test dropped, every call goes on to the calculator
EdemaRuleMissing(edema) == FALSE

\* Faulty variant of EdemaRule: the flag kept on the instance and never reset
\* (self.edema = self.edema or edema)
EdemaRuleSticky(edema) == edema \/ (last # NoCall /\ last.args.edema)

\* if edema:
EdemaRule(edema) == edema

\* Faulty variant of Classify: the cutoff -3 taken as inclusive for SAM
ClassifySamInclusive(whz) ==
    IF whz <= SAM_CUTOFF THEN
        [status |-> SAM, color_code |-> "RED", action |-> "Urgent Treatment Needed"]
    ELSE IF whz < MAM_CUTOFF THEN
        [status |-> MAM, color_code |-> "YELLOW", action |-> "Supplementary Feeding Required"]
    ELSE IF MAM_CUTOFF <= whz /\ whz < OVERWEIGHT_CUTOFF THEN
        [status |-> NORMAL, color_code |-> "GREEN", action |-> "Maintain Healthy Diet"]
    ELSE
        [status |-> OVERWEIGHT, color_code |-> "ORANGE", action |-> "Monitor Diet"]

\* Faulty variant of Classify: the colour of the first branch is the last one's
ClassifySamColor(whz) ==
    IF whz < SAM_CUTOFF THEN
        [status |-> SAM, color_code |-> "ORANGE", action |-> "Urgent Treatment Needed"]
    ELSE IF SAM_CUTOFF <= whz /\ whz < MAM_CUTOFF THEN
        [status |-> MAM, color_code |-> "YELLOW", action |-> "Supplementary Feeding Required"]
    ELSE IF MAM_CUTOFF <= whz /\ whz < OVERWEIGHT_CUTOFF THEN
        [status |-> NORMAL, color_code |-> "GREEN", action |-> "Maintain Healthy Diet"]
    ELSE
        [status |-> OVERWEIGHT, color_code |-> "ORANGE", action |-> "Monitor Diet"]

\* step 5: if whz < -3 ... elif -3 <= whz < -2 ... elif -2 <= whz < 2 ... else
Classify(whz) ==
    IF whz < SAM_CUTOFF THEN
        [status |-> SAM, color_code |-> "RED", action |-> "Urgent Treatment Needed"]
    ELSE IF SAM_CUTOFF <= whz /\ whz < MAM_CUTOFF THEN
        [status |-> MAM, color_code |-> "YELLOW", action |-> "Supplementary Feeding Required"]
    ELSE IF MAM_CUTOFF <= whz /\ whz < OVERWEIGHT_CUTOFF THEN
        [status |-> NORMAL, color_code |-> "GREEN", action |-> "Maintain Healthy Diet"]
    ELSE
        [status |-> OVERWEIGHT, color_code |-> "ORANGE", action |-> "Monitor Diet"]

\* Faulty variant of OnWflRaised: the except clause re-raises, the failure leaves predict
OnWflRaisedPropagates(out) == [raised |-> out.err]

\* except Exception as e: return {"status": "Error", ...}
OnWflRaised(out) ==
    [ret |-> [status |-> ERROR,
              message |-> <<ERROR_PREFIX, out.err>>,
              z_score |-> 0,
              color_code |-> "GRAY",
              action |-> "Check Inputs"]]

\* return {"status": status, "z_score": round(whz, 2), "color_code": color, "action": action}
OnWflReturned(out) ==
    LET c == Classify(out.whz)
    IN  [ret |-> [status |-> c.status,
                  z_score |-> Round2(out.whz),
                  color_code |-> c.color_code,
                  action |-> c.action]]

\* MalnutritionModel.predict run against calculator calc.  The value is
\* [ret |-> the returned dict] or [raised |-> the exception that left predict],
\* with wfl: the argument tuples self.calculator.wfl was called with.
Predict(calc, weight_kg, height_cm, age_years, sex, edema) ==
    IF EdemaRule(edema) THEN
        [ret |-> [status |-> SAM,
                  z_score |-> EDEMA_Z,
                  color_code |-> "RED",
                  action |-> EDEMA_ACTION],
         wfl |-> <<>>]
    ELSE
        LET age_months == age_years * 12
            sex_code == SexCode(sex)
            args == <<weight_kg, age_months, sex_code, height_cm>>
            out == calc[args]
            end == IF out.ok THEN OnWflReturned(out) ELSE OnWflRaised(out)
        IN  end @@ [wfl |-> <<args>>]


-----------------------------------------------------------------------------
(* Direct calls of model.predict: the inputs and the calculator's outcome   *)

Weights == {0, 12}
Heights == {40, 90}
Ages == {3, 6}
SexStrings ==
    { <<>>, <<"m">>, <<"M">>, <<"f">>, <<"F">>, <<"x">>, <<"X">>,
      <<"M", "a", "l", "e">>, <<"f", "e", "m", "a", "l", "e">>,
      <<"f", "m">>, <<" ", "m">> }

WflArgs == Weights \X {a * 12 : a \in Ages} \X {"M", "F"} \X Heights

\* exceptions pygrowup raises: the message is str(e)
WflErrors == {"InvalidMeasurement", "InvalidAge"}

\* resolved z-scores in steps of 0.002 around each cutoff (no value is an exact
\* tie of round(_, 2), where the binary representation would decide), and 0
Near(c) == {c + 2 * k : k \in (0 - Window)..Window}
WhzValues == Near(SAM_CUTOFF) \cup Near(MAM_CUTOFF) \cup Near(OVERWEIGHT_CUTOFF) \cup {0}

WflOutcomes == {Returned(z) : z \in WhzValues} \cup {Raised(e) : e \in WflErrors}

\* what a call leaves in the history variables last and seen
Record(args, out) ==
    /\ last' = [args |-> args, out |-> out]
    /\ seen' = IF "ret" \in DOMAIN out
               THEN seen \cup {[status |-> out.ret.status,
                                color_code |-> out.ret.color_code,
                                action |-> out.ret.action,
                                edema |-> args.edema]}
               ELSE seen

\* model.predict(weight_kg, height_cm, age_years, sex, edema)
PredictCall(w, h, a, s, e) ==
    /\ Record([weight_kg |-> w, height_cm |-> h, age_years |-> a, sex |-> s, edema |-> e],
              Predict(calculator, w, h, a, s, e))
    /\ UNCHANGED <<calculator, workers, children, assessLog, signup, stats, loginLog>>

CallPredict ==
    \E w \in Weights, h \in Heights, a \in Ages, s \in SexStrings, e \in BOOLEAN :
        PredictCall(w, h, a, s, e)

\* module load: model = MalnutritionModel(), create_all on an empty database
InitStore ==
    /\ last = NoCall
    /\ seen = {}
    /\ workers = <<>>
    /\ children = <<>>
    /\ assessLog = <<>>
    /\ signup = <<>>
    /\ stats = <<>>
    /\ loginLog = <<>>

InitPredict ==
    /\ \E o \in WflOutcomes : calculator = [x \in WflArgs |-> o]
    /\ InitStore

NextPredict == CallPredict

SpecPredict == InitPredict /\ [][NextPredict]_vars

-----------------------------------------------------------------------------
(* The HTTP handlers of src/app.py over the two tables *)

Codes == {"AWC1", "AWC2"}
Aadhars == {"1111", "2222"}
Passwords == {"pw", "other"}
WorkerNames == {"Asha"}
ChildNames == {"Ravi"}
ReqSex == {<<"M">>, <<"f">>}
ReqWeights == {12}
ReqHeights == {90}
ReqAges == {3}

ReqWflArgs == ReqWeights \X {a * 12 : a \in ReqAges} \X {"M", "F"} \X ReqHeights
ReqWflOutcomes == {Raised("InvalidMeasurement"), Returned(SAM_CUTOFF - 4), Returned(0)}

SignupData == [name : WorkerNames, aadhar_number : Aadhars,
               anganwadi_code : {"AWC1"}, password : {"pw"}]
LoginData == [aadhar_number : Aadhars, anganwadi_code : Codes, password : Passwords]
AssessData == [anganwadi_code : Codes, child_name : ChildNames, age_years : ReqAges,
               sex : ReqSex, height_cm : ReqHeights, weight_kg : ReqWeights,
               edema : BOOLEAN]

\* .first(): the row of lowest id among the rows (ids) a query selects
First(table, ids) == table[CHOOSE i \in ids : \A j \in ids : i <= j]

\* requests received so far; a new one is accepted while the bound allows
Received == Len(assessLog) + Len(signup) + Len(stats) + Len(loginLog)

\* db.query(HealthWorker).filter(HealthWorker.aadhar_number == aadhar)
WorkersWithAadhar(aadhar) == {k \in 1..Len(workers) : workers[k].aadhar_number = aadhar}

\* db.query(HealthWorker).filter(aadhar_number == ..., anganwadi_code == ..., password == ...)
WorkersMatching(creds) ==
    {k \in 1..Len(workers) : /\ workers[k].aadhar_number = creds.aadhar_number
                             /\ workers[k].anganwadi_code = creds.anganwadi_code
                             /\ workers[k].password = creds.password}

\* ---- POST /signup: register_worker ----

\* db.query(HealthWorker).filter(aadhar_number == worker.aadhar_number).first()
SignupQuery(worker) ==
    /\ Received < MaxRequests
    /\ LET existing_worker == WorkersWithAadhar(worker.aadhar_number)
       IN  IF existing_worker # {}
           THEN signup' = Append(signup,
                    [pc |-> "done", worker |-> worker, http |-> 400,
                     detail |-> "Worker already registered.", registered |-> TRUE])
           ELSE signup' = Append(signup, [pc |-> "insert", worker |-> worker])
    /\ UNCHANGED <<calculator, last, seen, workers, children, assessLog, stats, loginLog>>

\* aadhar_number = Column(String, unique=True, index=True): whether the insert passes
UniqueAadhar(table, aadhar) == \A k \in 1..Len(table) : table[k].aadhar_number # aadhar

\* db.add(new_worker); db.commit(); return {...}.  A commit the unique index
\* rejects raises IntegrityError, which nothing catches: the response is 500.
SignupCommit(i) ==
    /\ i \in DOMAIN signup
    /\ signup[i].pc = "insert"
    /\ LET worker == signup[i].worker
       IN  IF UniqueAadhar(workers, worker.aadhar_number)
           THEN /\ workers' = Append(workers,
                        [id |-> Len(workers) + 1,
                         name |-> worker.name,
                         aadhar_number |-> worker.aadhar_number,
                         anganwadi_code |-> worker.anganwadi_code,
                         password |-> worker.password])
                /\ signup' = [signup EXCEPT ![i] =
                        [pc |-> "done", worker |-> worker, http |-> 201,
                         detail |-> "Registration Successful", registered |-> FALSE]]
           ELSE /\ workers' = workers
                /\ signup' = [signup EXCEPT ![i] =
                        [pc |-> "done", worker |-> worker, http |-> 500,
                         detail |-> "Internal Server Error", registered |-> TRUE]]
    /\ UNCHANGED <<calculator, last, seen, children, assessLog, stats, loginLog>>

\* ---- POST /login: login_worker ----

LoginWorker(creds) ==
    /\ Received < MaxRequests
    /\ LET found == WorkersMatching(creds)
       IN  IF found = {}
           THEN loginLog' = Append(loginLog, [http |-> 401, detail |-> "Invalid Credentials"])
           ELSE loginLog' = Append(loginLog,
                    [http |-> 200, status |-> "success",
                     worker_name |-> First(workers, found).name,
                     anganwadi_code |-> First(workers, found).anganwadi_code])
    /\ UNCHANGED <<calculator, last, seen, workers, children, assessLog, signup, stats>>

\* ---- POST /assess: assess_child ----

\* Faulty variant of IsError: the test of the result's status dropped
IsErrorNever(result) == FALSE

\* if result["status"] == "Error":
IsError(result) == result.status = ERROR

AssessChild(data) ==
    /\ Received < MaxRequests
    /\ LET args == [weight_kg |-> data.weight_kg, height_cm |-> data.height_cm,
                    age_years |-> data.age_years, sex |-> data.sex, edema |-> data.edema]
           out == Predict(calculator, data.weight_kg, data.height_cm, data.age_years,
                          data.sex, data.edema)
       IN  /\ Record(args, out)
           /\ IF "ret" \notin DOMAIN out
              THEN \* an exception left predict: nothing is stored
                   /\ children' = children
                   /\ assessLog' = Append(assessLog,
                          [data |-> data, out |-> out, http |-> 500,
                           detail |-> "Internal Server Error"])
              ELSE IF IsError(out.ret)
              THEN /\ children' = children
                   /\ assessLog' = Append(assessLog,
                          [data |-> data, out |-> out, http |-> 400,
                           detail |-> "Invalid Data"])
              ELSE /\ children' = Append(children,
                          [id |-> Len(children) + 1,
                           anganwadi_code |-> data.anganwadi_code,
                           name |-> data.child_name,
                           age_years |-> data.age_years,
                           sex |-> data.sex,
                           height |-> data.height_cm,
                           weight |-> data.weight_kg,
                           status |-> out.ret.status,
                           z_score |-> out.ret.z_score,
                           color_code |-> out.ret.color_code])
                   /\ assessLog' = Append(assessLog,
                          [data |-> data, out |-> out, http |-> 200,
                           child_name |-> data.child_name, diagnosis |-> out.ret])
    /\ UNCHANGED <<calculator, workers, signup, stats, loginLog>>

\* ---- GET /stats/{anganwadi_code}: get_dashboard_stats ----

\* sum(local_stats.values())
RECURSIVE SumValues(_)
SumValues(d) ==
    IF DOMAIN d = {} THEN 0
    ELSE LET k == CHOOSE x \in DOMAIN d : TRUE
         IN  d[k] + SumValues([x \in DOMAIN d \ {k} |-> d[x]])

\* Faulty variant of LocalStats: the filter on anganwadi_code dropped
LocalStatsUnfiltered(table, code) ==
    LET present == {table[k].status : k \in 1..Len(table)}
    IN  [st \in present |-> Cardinality({k \in 1..Len(table) : table[k].status = st})]

\* query(status, count(id)).filter(anganwadi_code == code).group_by(status).all(),
\* as the dict {status: count}
LocalStats(table, code) ==
    LET mine == {k \in 1..Len(table) : table[k].anganwadi_code = code}
        present == {table[k].status : k \in mine}
    IN  [st \in present |-> Cardinality({k \in mine : table[k].status = st})]

\* first query, local_stats and total_local
StatsLocal(code) ==
    /\ Received < MaxRequests
    /\ LET local_stats == LocalStats(children, code)
       IN  stats' = Append(stats,
                [pc |-> "global", anganwadi_code |-> code,
                 local_stats |-> local_stats, total_local |-> SumValues(local_stats)])
    /\ UNCHANGED <<calculator, last, seen, workers, children, assessLog, signup, loginLog>>

\* db.query(func.count(ChildRecord.id)).scalar()
GlobalCount(table) == Len(table)

\* second query and the response
StatsGlobal(i) ==
    /\ i \in DOMAIN stats
    /\ stats[i].pc = "global"
    /\ stats' = [stats EXCEPT ![i] =
            [pc |-> "done",
             anganwadi_code |-> stats[i].anganwadi_code,
             local_stats |-> stats[i].local_stats,
             total_checked_here |-> stats[i].total_local,
             total_checked_global |-> GlobalCount(children)]]
    /\ UNCHANGED <<calculator, last, seen, workers, children, assessLog, signup, loginLog>>

\* ---- the server ----

Init ==
    /\ calculator \in [ReqWflArgs -> ReqWflOutcomes]
    /\ InitStore

Signup == (\E worker \in SignupData : SignupQuery(worker)) \/ (\E i \in 1..MaxRequests : SignupCommit(i))
Login == \E creds \in LoginData : LoginWorker(creds)
Assess == \E data \in AssessData : AssessChild(data)
Stats == (\E code \in Codes : StatsLocal(code)) \/ (\E i \in 1..MaxRequests : StatsGlobal(i))

Next == Signup \/ Login \/ Assess \/ Stats

Spec == Init /\ [][Next]_vars

-----------------------------------------------------------------------------
(* Properties of model.predict, checked under SpecPredict *)

Called == last # NoCall
Returns == Called /\ "ret" \in DOMAIN last.out
\* the outcome of the calculator for the arguments the last call passed to it
Resolved == calculator[last.out.wfl[1]]

\* C1: a call with edema = true returns SAM / RED / -5.0 with the edematous
\* action, whatever the other arguments are, and never calls the calculator.
C1_EdemaShortCircuit ==
    (Called /\ last.args.edema) =>
        last.out = [ret |-> [status |-> "Severe Acute Malnutrition (SAM)",
                             z_score |-> -5000,
                             color_code |-> "RED",
                             action |-> "Urgent Medical Attention Required (Edematous Malnutrition)"],
                    wfl |-> <<>>]

\* an edema call with zero weight and an empty sex string, on a calculator that
\* raises for every argument
C1_Witness ==
    /\ Called /\ last.args.edema
    /\ last.args.weight_kg = 0 /\ last.args.sex = <<>>
    /\ \A x \in DOMAIN calculator : ~calculator[x].ok
    /\ Returns /\ last.out.ret.z_score = -5000

\* C2: a call with edema = false whose resolution raises returns the error
\* dictionary (Error, 0, GRAY, "Check Inputs", a message); nothing is raised
\* out of predict.
C2_ResolutionFailureIsErrorResult ==
    (Called /\ ~last.args.edema) =>
        /\ Len(last.out.wfl) = 1
        /\ ~Resolved.ok =>
              /\ Returns
              /\ last.out.ret = [status |-> "Error",
                                 message |-> <<"Could not calculate score: ", Resolved.err>>,
                                 z_score |-> 0,
                                 color_code |-> "GRAY",
                                 action |-> "Check Inputs"]

C2_Witness ==
    /\ Called /\ ~last.args.edema /\ Len(last.out.wfl) = 1
    /\ Resolved = Raised("InvalidAge")
    /\ last.args.age_years * 12 > 60
    /\ Returns /\ last.out.ret.status = "Error"

\* C3: a call with edema = false whose resolution returns whz is classified by
\* the half-open bands  whz < -3 | -3 <= whz < -2 | -2 <= whz < 2 | whz >= 2,
\* never as Error.
C3_ClassificationBands ==
    (Called /\ ~last.args.edema /\ Len(last.out.wfl) = 1 /\ Resolved.ok) =>
        LET whz == Resolved.whz
            r == last.out.ret
            Is(st, col, act) == r.status = st /\ r.color_code = col /\ r.action = act
        IN  /\ Returns
            /\ r.status # "Error"
            /\ whz < -3000 =>
                  Is("Severe Acute Malnutrition (SAM)", "RED", "Urgent Treatment Needed")
            /\ (-3000 <= whz /\ whz < -2000) =>
                  Is("Moderate Acute Malnutrition (MAM)", "YELLOW", "Supplementary Feeding Required")
            /\ (-2000 <= whz /\ whz < 2000) =>
                  Is("Normal", "GREEN", "Maintain Healthy Diet")
            /\ whz >= 2000 =>
                  Is("Possible Overweight", "ORANGE", "Monitor Diet")

\* whz exactly -3.0 classified as MAM
C3_Witness ==
    /\ Called /\ ~last.args.edema /\ Len(last.out.wfl) = 1
    /\ Resolved = Returned(-3000)
    /\ Returns /\ last.out.ret.status = "Moderate Acute Malnutrition (MAM)"

BeginsWith(s, chars) == Len(s) >= 1 /\ s[1] \in chars

C5_OneActionPerStatus ==
    \A a, b \in seen :
        a.status = b.status => (a.action = b.action /\ a.color_code = b.color_code)

\* C5 as amended: results with the same status have the same colour, and the
\* same action when they also agree on edema; with edema = true the action is
\* the edematous one.
C5_OneActionPerStatusAndEdema ==
    \A a, b \in seen :
        /\ a.status = b.status =>
              /\ a.color_code = b.color_code
              /\ a.edema = b.edema => a.action = b.action
        /\ a.edema =>
              a.action = "Urgent Medical Attention Required (Edematous Malnutrition)"

\* SAM returned once by the edema rule and once by the z-score
C5_Witness ==
    \E a, b \in seen :
        /\ a.status = "Severe Acute Malnutrition (SAM)" /\ a.edema
        /\ b.status = "Severe Acute Malnutrition (SAM)" /\ ~b.edema
        /\ a.action # b.action /\ a.color_code = b.color_code

-----------------------------------------------------------------------------
(* Properties of the handlers, checked under Spec *)

RowsOf(code) == {k \in 1..Len(children) : children[k].anganwadi_code = code}

\* C7: every /stats response has total_checked_here = sum of local_stats and
\* total_checked_here <= total_checked_global, whatever /assess commits between
\* its two queries; a code without records gets an empty local_stats and 0.
C7_StatsConsistent ==
    \A i \in DOMAIN stats :
        stats[i].pc = "done" =>
            LET r == stats[i]
            IN  /\ r.total_checked_here = SumValues(r.local_stats)
                /\ \A st \in DOMAIN r.local_stats : r.local_stats[st] >= 1
                /\ r.total_checked_here <= r.total_checked_global
                /\ r.total_checked_here <= Cardinality(RowsOf(r.anganwadi_code))
                /\ r.total_checked_global <= Len(children)
                /\ RowsOf(r.anganwadi_code) = {} =>
                      (DOMAIN r.local_stats = {} /\ r.total_checked_here = 0)

\* a response whose global count includes a record of the queried code that was
\* committed after the local query
C7_Witness ==
    \E i \in DOMAIN stats :
        /\ stats[i].pc = "done"
        /\ stats[i].total_checked_here < Cardinality(RowsOf(stats[i].anganwadi_code))
        /\ stats[i].total_checked_global = Len(children)
        /\ stats[i].total_checked_here < stats[i].total_checked_global

PredictArgs(data) ==
    <<data.weight_kg, data.height_cm, data.age_years, data.sex, data.edema>>

NotError(entry) == "ret" \in DOMAIN entry.out /\ entry.out.ret.status # "Error"

\* C9: the children table holds, in order, one row per /assess request whose
\* classification is not Error, with the request's code and the diagnosis'
\* status, z_score and color_code; an Error classification is answered 400
\* "Invalid Data" and stores nothing.
C9_StoreMatchesRequests ==
    LET accepted == SelectSeq(assessLog, NotError)
    IN  /\ Len(children) = Len(accepted)
        /\ \A k \in 1..Len(accepted) :
              /\ children[k].id = k
              /\ children[k].anganwadi_code = accepted[k].data.anganwadi_code
              /\ children[k].name = accepted[k].data.child_name
              /\ children[k].status = accepted[k].out.ret.status
              /\ children[k].z_score = accepted[k].out.ret.z_score
              /\ children[k].color_code = accepted[k].out.ret.color_code
              /\ accepted[k].http = 200
        /\ \A k \in 1..Len(children) : children[k].status # "Error"
        /\ \A j \in DOMAIN assessLog :
              ~NotError(assessLog[j]) =>
                  (assessLog[j].http = 400 /\ assessLog[j].detail = "Invalid Data")

\* a rejected request followed by an accepted one
C9_Witness ==
    /\ Len(assessLog) = 2
    /\ ~NotError(assessLog[1]) /\ assessLog[1].http = 400
    /\ NotError(assessLog[2])
    /\ Len(children) = 1 /\ children[1].z_score = -3000

\* C10: no two workers share an aadhar_number, and a signup that finds its
\* aadhar_number registered, at its query or at its commit, ends with 400
\* "Worker already registered."
C10_DuplicateSignupIs400 ==
    /\ \A j, k \in 1..Len(workers) :
          workers[j].aadhar_number = workers[k].aadhar_number => j = k
    /\ \A i \in DOMAIN signup :
          (signup[i].pc = "done" /\ signup[i].registered) =>
              (signup[i].http = 400 /\ signup[i].detail = "Worker already registered.")

=============================================================================
